---- MODULE Spec2Model ----
(***************************************************************************)
(* Order lifecycle of the optical marketplace backend: order creation with *)
(* per-seller splitting and stock decrement (OrdersService.create), the    *)
(* seller and admin status transitions, and payment reconciliation from    *)
(* the gateway (PaymentService.handleWebhook / getPaymentStatus driving    *)
(* OrdersService.updatePaymentStatus).                                     *)
(*                                                                         *)
(* Every database statement the services await is one step: requests of    *)
(* different callers interleave between statements, and only the           *)
(* statements inside prisma.$transaction commit together.                  *)
(***************************************************************************)
EXTENDS Integers, Sequences, FiniteSets, TLC

VARIABLES
    stock,      \* Product.stock, per product
    productSeller, \* Product.sellerId, per product
    orders,     \* the Order table with its OrderItems, in creation order; the id is the index
    call,       \* the OrdersService.create requests, one record per request
    rec,        \* the OrdersService.updatePaymentStatus run in flight, if any
    addresses,  \* the Address table, in creation order; the id is the index
    areq,       \* the AddressService requests in flight
    userStatus, \* User.status, per user
    tokens      \* the bearer tokens signed so far and not yet expired

vars == <<stock, productSeller, orders, call, rec, addresses, areq, userStatus, tokens>>

\* the tables of the order lifecycle, and those of the address book and the accounts
orderVars == <<stock, productSeller, orders, call, rec>>
accountVars == <<addresses, areq, userStatus, tokens>>

----------------------------------------------------------------------------
(* Bounds of the model *)

InitStock == 2      \* stock of every product in the initial state
MaxQty == 2         \* largest quantity of a cart item
MaxItems == 2       \* longest cart
MaxCalls == 2       \* create requests in flight at once
MaxOrders == 2      \* rows of the Order table
StockCap == 3       \* restorations stop above this stock
LifecycleOrders == 1 \* rows of the Order table when reconciliations and transitions run

----------------------------------------------------------------------------
(* The catalogue, the users and the enums *)

NoSeller == "null"
NoProduct == "p0"
NoAddress == "a0"
Platform == "platform"

Products == {"pA", "pB", "pC"}
ProductIds == Products \cup {NoProduct}

\* Product.sellerId as the catalogue starts: pA and pB belong to seller s1,
\* pC is platform-owned
ProductSeller(p) == IF p \in {"pA", "pB"} THEN "s1" ELSE NoSeller

\* Product.price
ProductPrice(p) == CASE p = "pA" -> 10 [] p = "pB" -> 20 [] OTHER -> 5

Buyers == {"u1", "u2"}
Sellers == {"s1", "s2"}
Admins == {"adm"}

\* Address.userId of an address id: u1 has one address, u2 has none
AddressOwner(a) == IF a = "a1" THEN "u1" ELSE NoSeller
AddressIds == {"a1", NoAddress}

OrderStatus == {"PENDING", "PAID", "SHIPPED", "DELIVERED", "CANCELLED"}
PaymentStatus == {"PENDING", "APPROVED", "IN_PROCESS", "REJECTED", "CANCELLED"}
ShippingType == {"SELLER", "PLATFORM"}
ShippingCosts == {0, 6}

CartItems == [productId : ProductIds, quantity : 1..MaxQty]

RECURSIVE SeqsUpTo(_, _)
SeqsUpTo(S, n) ==
    IF n = 0 THEN {<<>>}
    ELSE LET shorter == SeqsUpTo(S, n - 1)
         IN  shorter \cup {Append(s, x) : s \in {t \in shorter : Len(t) = n - 1}, x \in S}

Carts == SeqsUpTo(CartItems, MaxItems)

Range(s) == {s[i] : i \in 1..Len(s)}

RECURSIVE SumSeq(_)
SumSeq(s) == IF s = <<>> THEN 0 ELSE Head(s) + SumSeq(Tail(s))

----------------------------------------------------------------------------
(* OrdersService.create: validation and grouping (the statements before    *)
(* the transaction)                                                        *)

\* a lookup that returns one row per cart item, a repeated product twice
FindProductsPerItem(items) == {i \in 1..Len(items) : items[i].productId \in Products}

\* prisma.product.findMany({ where: { id: { in: productIds } } })
FindProducts(items) == {it.productId : it \in Range(items)} \cap Products

\* the first item whose product has less stock than the item asks for
RECURSIVE FirstShort(_, _)
FirstShort(items, stk) ==
    IF items = <<>> THEN NoProduct
    ELSE IF Head(items).productId \in Products /\ stk[Head(items).productId] < Head(items).quantity
         THEN Head(items).productId
         ELSE FirstShort(Tail(items), stk)

NoError == [kind |-> "none", product |-> NoProduct]
Err(k) == [kind |-> k, product |-> NoProduct]

\* the checks of create without the stock validation loop
ValidateCreateNoStockCheck(userId, addressId, items, stk) ==
    IF items = <<>> THEN Err("CartEmpty")
    ELSE IF AddressOwner(addressId) # userId THEN Err("AddressNotFound")
    ELSE IF Cardinality(FindProducts(items)) # Len(items) THEN Err("ProductsNotFound")
    ELSE NoError

\* the checks of create with the stock validation loop ahead of the product count
ValidateCreateStockFirst(userId, addressId, items, stk) ==
    IF items = <<>> THEN Err("CartEmpty")
    ELSE IF AddressOwner(addressId) # userId THEN Err("AddressNotFound")
    ELSE IF FirstShort(items, stk) # NoProduct
         THEN [kind |-> "InsufficientStock", product |-> FirstShort(items, stk)]
    ELSE IF Cardinality(FindProducts(items)) # Len(items) THEN Err("ProductsNotFound")
    ELSE NoError

\* the checks of create in the order the code makes them
ValidateCreate(userId, addressId, items, stk) ==
    IF items = <<>> THEN Err("CartEmpty")
    ELSE IF AddressOwner(addressId) # userId THEN Err("AddressNotFound")
    ELSE IF Cardinality(FindProducts(items)) # Len(items) THEN Err("ProductsNotFound")
    ELSE IF FirstShort(items, stk) # NoProduct
         THEN [kind |-> "InsufficientStock", product |-> FirstShort(items, stk)]
    ELSE NoError

\* product.sellerId || 'platform', of the product row as findMany returns it
SellerKey(p) ==
    IF p \notin Products \/ productSeller[p] = NoSeller THEN Platform ELSE productSeller[p]

\* the keys of the sellerGroups Map in insertion order
RECURSIVE GroupKeys(_, _)
GroupKeys(items, seen) ==
    IF items = <<>> THEN <<>>
    ELSE LET k == SellerKey(Head(items).productId)
         IN  IF k \in seen THEN GroupKeys(Tail(items), seen)
             ELSE <<k>> \o GroupKeys(Tail(items), seen \cup {k})

PricedItem(it) ==
    [productId |-> it.productId, quantity |-> it.quantity, price |-> ProductPrice(it.productId)]

GroupItems(items, k) ==
    LET priced == [i \in 1..Len(items) |-> PricedItem(items[i])]
        InGroup(it) == SellerKey(it.productId) = k
    IN  SelectSeq(priced, InGroup)

\* the sellerGroups Map: one entry per seller key, each with its items in cart order
SellerGroups(items) ==
    LET keys == GroupKeys(items, {})
    IN  [i \in 1..Len(keys) |-> [sellerId |-> keys[i], items |-> GroupItems(items, keys[i])]]

\* the shipping cost charged whatever the shipping type
ShippingCostIgnoringType(shippingType, shippingCost) == shippingCost

\* data.shippingType === SELLER ? 0 : (data.shippingCost || 0)
ShippingCost(shippingType, shippingCost) == IF shippingType = "SELLER" THEN 0 ELSE shippingCost

\* the reduce without the quantity factor
ItemsTotalNoQuantity(sellerItems) ==
    SumSeq([i \in 1..Len(sellerItems) |-> sellerItems[i].price])

\* sellerItems.reduce((sum, i) => sum + i.price * i.quantity, 0)
ItemsTotal(sellerItems) ==
    SumSeq([i \in 1..Len(sellerItems) |-> sellerItems[i].price * sellerItems[i].quantity])

\* total = itemsTotal + shippingCost / sellerCount, kept as the exact fraction n / d
OrderTotal(sellerItems, shippingCost, sellerCount) ==
    [n |-> ItemsTotal(sellerItems) * sellerCount + shippingCost, d |-> sellerCount]

----------------------------------------------------------------------------
(* OrdersService.create: the transaction                                   *)

\* the row tx.order.create inserts for one seller group
NewOrder(userId, g, shippingCost, sellerCount) ==
    [userId |-> userId,
     sellerId |-> IF g.sellerId = Platform THEN NoSeller ELSE g.sellerId,
     items |-> g.items,
     total |-> OrderTotal(g.items, shippingCost, sellerCount),
     status |-> "PENDING",
     paymentStatus |-> "PENDING",
     paymentId |-> 0]

\* the statements of the transaction callback in program order: per seller
\* group the order insert, then one stock decrement per item of the group
RECURSIVE TxOps(_, _)
TxOps(groups, i) ==
    IF i > Len(groups) THEN <<>>
    ELSE <<[kind |-> "insert", group |-> i, item |-> 0]>>
         \o [j \in 1..Len(groups[i].items) |-> [kind |-> "dec", group |-> i, item |-> j]]
         \o TxOps(groups, i + 1)

\* the Order table after one statement of a request's transaction has reached the database
ApplyOrderOp(ords, cr, op) ==
    IF op.kind = "insert"
    THEN Append(ords, NewOrder(cr.user, cr.groups[op.group], cr.ship, Len(cr.groups)))
    ELSE ords

\* a decrement of one unit whatever the quantity
DecrementStockByOne(stk, item) == [stk EXCEPT ![item.productId] = @ - 1]

\* stock: { decrement: item.quantity }
DecrementStock(stk, item) == [stk EXCEPT ![item.productId] = @ - item.quantity]

\* the stock after one statement of the transaction has reached the database
ApplyStockOp(stk, cr, op) ==
    IF op.kind = "dec" THEN DecrementStock(stk, cr.groups[op.group].items[op.item]) ELSE stk

RECURSIVE ApplyOrderOps(_, _, _)
ApplyOrderOps(ords, cr, ops) ==
    IF ops = <<>> THEN ords
    ELSE ApplyOrderOps(ApplyOrderOp(ords, cr, Head(ops)), cr, Tail(ops))

RECURSIVE ApplyStockOps(_, _, _)
ApplyStockOps(stk, cr, ops) ==
    IF ops = <<>> THEN stk ELSE ApplyStockOps(ApplyStockOp(stk, cr, Head(ops)), cr, Tail(ops))

\* a write through the transaction client leaks to the other requests at once
TxOrdersSeenLeaky(ords, cr, op) == ApplyOrderOp(ords, cr, op)

\* what the other requests see of the Order table when a statement runs on
\* the transaction client tx: nothing before the commit
TxOrdersSeen(ords, cr, op) == ords

\* what the other requests see of the stock when a statement runs on tx
TxStockSeen(stk, cr, op) == stk

\* data.shippingType and data.shippingCost stay in scope until create returns
NoShipping == [shippingType |-> "", shippingCost |-> 0]

IdleCall ==
    [pc |-> "idle", user |-> "", items |-> <<>>, groups |-> <<>>, data |-> NoShipping,
     ship |-> 0, step |-> 0]

Calls == 1..MaxCalls

\* create up to the start of the transaction: the request as it enters
\* prisma.$transaction, or IdleCall when a check has thrown
StartedCall(userId, addressId, items, shippingType, shippingCost, stk) ==
    IF ValidateCreate(userId, addressId, items, stk) = NoError
    THEN [IdleCall EXCEPT !.pc = "tx", !.user = userId, !.items = items,
                          !.groups = SellerGroups(items),
                          !.data = [shippingType |-> shippingType,
                                    shippingCost |-> shippingCost],
                          !.ship = ShippingCost(shippingType, shippingCost)]
    ELSE IdleCall

\* the request up to the start of the transaction: lines 67-106
CreateStart(c, userId, addressId, items, shippingType, shippingCost, limit) ==
    /\ call[c].pc = "idle"
    /\ \A b \in Calls : b < c => call[b].pc # "idle"
    /\ Len(orders) + Len(GroupKeys(items, {})) <= limit
    /\ call' = [call EXCEPT ![c] =
            StartedCall(userId, addressId, items, shippingType, shippingCost, stock)]
    /\ UNCHANGED <<accountVars, productSeller, stock, orders, rec>>

\* one statement of the transaction callback
TxStep(c) ==
    /\ call[c].pc = "tx"
    /\ LET ops == TxOps(call[c].groups, 1)
       IN  /\ call[c].step < Len(ops)
           /\ orders' = TxOrdersSeen(orders, call[c], ops[call[c].step + 1])
           /\ stock' = TxStockSeen(stock, call[c], ops[call[c].step + 1])
    /\ call' = [call EXCEPT ![c].step = @ + 1]
    /\ UNCHANGED <<accountVars, productSeller, rec>>

\* a commit that goes through only when no stock ends below zero
TxCommitChecked(c, limit) ==
    /\ call[c].pc = "tx"
    /\ LET ops == TxOps(call[c].groups, 1)
       IN  /\ call[c].step = Len(ops)
           /\ Len(orders) + Len(call[c].groups) <= limit
           /\ \A p \in Products : ApplyStockOps(stock, call[c], ops)[p] >= 0
           /\ orders' = ApplyOrderOps(orders, call[c], ops)
           /\ stock' = ApplyStockOps(stock, call[c], ops)
    /\ call' = [call EXCEPT ![c] = IdleCall]
    /\ UNCHANGED <<accountVars, productSeller, rec>>

\* the callback returned: the transaction commits all its statements
TxCommit(c, limit) ==
    /\ call[c].pc = "tx"
    /\ LET ops == TxOps(call[c].groups, 1)
       IN  /\ call[c].step = Len(ops)
           /\ Len(orders) + Len(call[c].groups) <= limit
           /\ orders' = ApplyOrderOps(orders, call[c], ops)
           /\ stock' = ApplyStockOps(stock, call[c], ops)
    /\ call' = [call EXCEPT ![c] = IdleCall]
    /\ UNCHANGED <<accountVars, productSeller, rec>>

\* a statement of the transaction throws: the transaction rolls back
TxFail(c) ==
    /\ call[c].pc = "tx"
    /\ call' = [call EXCEPT ![c] = IdleCall]
    /\ UNCHANGED <<accountVars, productSeller, stock, orders, rec>>

----------------------------------------------------------------------------
(* PaymentService.mapPaymentStatus                                         *)

\* the own properties of the statusMap object literal
statusMap ==
    [mp \in {"pending", "approved", "authorized", "in_process", "in_mediation",
             "rejected", "cancelled", "refunded", "charged_back"} |->
        CASE mp = "pending" -> "PENDING"
          [] mp \in {"approved", "authorized"} -> "APPROVED"
          [] mp \in {"in_process", "in_mediation"} -> "IN_PROCESS"
          [] mp = "rejected" -> "REJECTED"
          [] OTHER -> "CANCELLED"]

\* the properties every object literal inherits from Object.prototype: a
\* lookup of one of these names yields a function, which is truthy
ObjectPrototypeKeys == {"constructor", "toString", "valueOf", "hasOwnProperty"}
InheritedValue == "[Function]"

\* statusMap[mpStatus] || PaymentStatus.PENDING
mapPaymentStatus(mpStatus) ==
    IF mpStatus \in DOMAIN statusMap THEN statusMap[mpStatus]
    ELSE IF mpStatus \in ObjectPrototypeKeys THEN InheritedValue
    ELSE "PENDING"

\* the status strings a fetched payment carries ("absent": no status field)
GatewayStatuses == DOMAIN statusMap \cup {"unknown", "absent", "constructor"}

----------------------------------------------------------------------------
(* Payment reconciliation: handleWebhook, getPaymentStatus and             *)
(* OrdersService.updatePaymentStatus                                       *)

IdleRec == [pc |-> "idle", order |-> 0, paymentId |-> 0, status |-> "", todo |-> <<>>]

\* payment.external_reference: the gateway payment n was opened for order n
ExternalReference(paymentId) == paymentId

EventTypes == {"payment", "merchant_order"}

\* a restore that skips an order that is already CANCELLED
ItemsToRestoreOnce(ords, orderId, status) ==
    IF status \in {"REJECTED", "CANCELLED"} /\ ords[orderId].status # "CANCELLED"
    THEN ords[orderId].items ELSE <<>>

\* the items updatePaymentStatus restores for a mapped status
ItemsToRestore(ords, orderId, status) ==
    IF status \in {"REJECTED", "CANCELLED"} THEN ords[orderId].items ELSE <<>>

\* updatePaymentStatus is entered: its findUnique (NotFoundException when the
\* order is missing) and, for REJECTED and CANCELLED, its orderItem.findMany
BeginUpdatePaymentStatus(ords, orderId, paymentId, status) ==
    IF orderId \in 1..Len(ords)
    THEN [pc |-> "run", order |-> orderId, paymentId |-> paymentId, status |-> status,
          todo |-> ItemsToRestore(ords, orderId, status)]
    ELSE IdleRec

\* handleWebhook up to the call of updatePaymentStatus: the run it starts, if any
handleWebhook(ords, type, paymentId, fetched, mpStatus) ==
    IF type = "payment" /\ paymentId # 0 /\ fetched
    THEN BeginUpdatePaymentStatus(ords, ExternalReference(paymentId), paymentId,
                                  mapPaymentStatus(mpStatus))
    ELSE IdleRec

\* a webhook whose failures reach the gateway
handleWebhookReturnRethrow(type, paymentId, thrown) ==
    IF type # "payment" \/ paymentId = 0
    THEN [received |-> TRUE, processed |-> FALSE, error |-> FALSE]
    ELSE [received |-> ~thrown, processed |-> ~thrown, error |-> thrown]

\* what handleWebhook returns; thrown: a statement of its try block threw
\* (the seller-token fetch, the order lookup, updatePaymentStatus)
handleWebhookReturn(type, paymentId, thrown) ==
    IF type # "payment" \/ paymentId = 0
    THEN [received |-> TRUE, processed |-> FALSE, error |-> FALSE]
    ELSE IF thrown
    THEN [received |-> TRUE, processed |-> FALSE, error |-> TRUE]
    ELSE [received |-> TRUE, processed |-> TRUE, error |-> FALSE]

\* updatePaymentStatus throws NotFoundException: the payment's
\* external_reference is no order
UnknownOrder(ords, paymentId) == ExternalReference(paymentId) \notin 1..Len(ords)

\* POST payment/webhook
WebhookStart(type, paymentId, fetched, mpStatus) ==
    /\ rec.pc = "idle"
    /\ rec' = handleWebhook(orders, type, paymentId, fetched, mpStatus)
    /\ UNCHANGED <<accountVars, productSeller, stock, orders, call>>

\* a poll that re-applies the fetched status even when it is the stored one
getPaymentStatusAlways(ords, orderId, userId, fetched, mpStatus) ==
    IF /\ orderId \in 1..Len(ords)
       /\ ords[orderId].userId = userId
       /\ ords[orderId].paymentId # 0
       /\ fetched
    THEN BeginUpdatePaymentStatus(ords, orderId, ords[orderId].paymentId,
                                  mapPaymentStatus(mpStatus))
    ELSE IdleRec

\* getPaymentStatus up to the call of updatePaymentStatus: the run it starts, if any
getPaymentStatus(ords, orderId, userId, fetched, mpStatus) ==
    IF /\ orderId \in 1..Len(ords)
       /\ ords[orderId].userId = userId
       /\ ords[orderId].paymentId # 0
       /\ fetched
       /\ mapPaymentStatus(mpStatus) # ords[orderId].paymentStatus
    THEN BeginUpdatePaymentStatus(ords, orderId, ords[orderId].paymentId,
                                  mapPaymentStatus(mpStatus))
    ELSE IdleRec

\* a lookup that tells a row of another user from a missing row
findOneTelling(ords, id, userId) ==
    IF id \notin 1..Len(ords) THEN [error |-> "NotFound", order |-> 0]
    ELSE IF ords[id].userId # userId THEN [error |-> "Forbidden", order |-> 0]
    ELSE [error |-> "none", order |-> id]

\* OrdersService.findOne(id, userId): findFirst({ id, userId }), then
\* NotFoundException('Order not found') when no row matches
findOne(ords, id, userId) ==
    IF id \in 1..Len(ords) /\ ords[id].userId = userId
    THEN [error |-> "none", order |-> id]
    ELSE [error |-> "NotFound", order |-> 0]

\* the checks PaymentService.createCheckout starts with: lines 546-552
createCheckoutReturn(ords, orderId, userId) ==
    IF ~(orderId \in 1..Len(ords) /\ ords[orderId].userId = userId)
    THEN [error |-> "BadRequest", message |-> "Order not found"]
    ELSE IF ords[orderId].paymentStatus = "APPROVED"
    THEN [error |-> "BadRequest", message |-> "Order already paid"]
    ELSE [error |-> "none", message |-> ""]

\* a poll that surfaces the gateway failure to its caller
getPaymentStatusReturnRethrow(ords, orderId, userId, fetched, mpStatus, thrown) ==
    IF ~(orderId \in 1..Len(ords) /\ ords[orderId].userId = userId)
    THEN [error |-> "BadRequest", paymentStatus |-> "", orderStatus |-> ""]
    ELSE IF ords[orderId].paymentId = 0
    THEN [error |-> "none", paymentStatus |-> ords[orderId].paymentStatus,
          orderStatus |-> ords[orderId].status]
    ELSE IF ~fetched \/ thrown
    THEN [error |-> "Gateway", paymentStatus |-> "", orderStatus |-> ""]
    ELSE [error |-> "none", paymentStatus |-> mapPaymentStatus(mpStatus),
          orderStatus |-> ords[orderId].status]

\* what getPaymentStatus answers; ords is the table its findFirst read,
\* thrown: updatePaymentStatus threw inside the try block
getPaymentStatusReturn(ords, orderId, userId, fetched, mpStatus, thrown) ==
    IF ~(orderId \in 1..Len(ords) /\ ords[orderId].userId = userId)
    THEN [error |-> "BadRequest", paymentStatus |-> "", orderStatus |-> ""]
    ELSE IF ords[orderId].paymentId = 0 \/ ~fetched \/ thrown
    THEN [error |-> "none", paymentStatus |-> ords[orderId].paymentStatus,
          orderStatus |-> ords[orderId].status]
    ELSE [error |-> "none", paymentStatus |-> mapPaymentStatus(mpStatus),
          orderStatus |-> ords[orderId].status]

\* GET payment/:orderId/status
PollStart(orderId, userId, fetched, mpStatus) ==
    /\ rec.pc = "idle"
    /\ rec' = getPaymentStatus(orders, orderId, userId, fetched, mpStatus)
    /\ UNCHANGED <<accountVars, productSeller, stock, orders, call>>

\* an increment of one unit whatever the quantity
IncrementStockByOne(stk, item) == [stk EXCEPT ![item.productId] = @ + 1]

\* stock: { increment: item.quantity }
IncrementStock(stk, item) == [stk EXCEPT ![item.productId] = @ + item.quantity]

\* one turn of the restore loop: lines 175-180
RestoreItem ==
    /\ rec.pc = "run"
    /\ rec.todo # <<>>
    /\ stock[Head(rec.todo).productId] + Head(rec.todo).quantity <= StockCap
    /\ stock' = IncrementStock(stock, Head(rec.todo))
    /\ rec' = [rec EXCEPT !.todo = Tail(@)]
    /\ UNCHANGED <<accountVars, productSeller, orders, call>>

\* updateData that puts the order back to PENDING when the payment is not final
PaymentUpdateResetting(o, paymentId, status) ==
    [o EXCEPT !.paymentId = paymentId,
              !.paymentStatus = status,
              !.status = IF status = "APPROVED" THEN "PAID"
                         ELSE IF status \in {"REJECTED", "CANCELLED"} THEN "CANCELLED"
                         ELSE "PENDING"]

\* updateData without the status PAID of an approved payment
PaymentUpdateNoPaid(o, paymentId, status) ==
    [o EXCEPT !.paymentId = paymentId,
              !.paymentStatus = status,
              !.status = IF status \in {"REJECTED", "CANCELLED"} THEN "CANCELLED" ELSE @]

\* updateData of updatePaymentStatus, applied to the order row
PaymentUpdate(o, paymentId, status) ==
    [o EXCEPT !.paymentId = paymentId,
              !.paymentStatus = status,
              !.status = IF status = "APPROVED" THEN "PAID"
                         ELSE IF status \in {"REJECTED", "CANCELLED"} THEN "CANCELLED"
                         ELSE @]

\* the final prisma.order.update: lines 183-190; a paymentStatus outside the
\* enum is refused by the client and the call throws
UpdateOrderPayment ==
    /\ rec.pc = "run"
    /\ rec.todo = <<>>
    /\ orders' = IF rec.status \in PaymentStatus
                 THEN [orders EXCEPT ![rec.order] = PaymentUpdate(@, rec.paymentId, rec.status)]
                 ELSE orders
    /\ rec' = IdleRec
    /\ UNCHANGED <<accountVars, productSeller, stock, call>>

\* the restore loop run over all the items it was given
RECURSIVE RestoreAll(_, _)
RestoreAll(stk, items) ==
    IF items = <<>> THEN stk ELSE RestoreAll(IncrementStock(stk, Head(items)), Tail(items))

\* the database after the run r of updatePaymentStatus has gone through
\* with no other request in between (r idle: the caller never entered it)
Completed(ords, stk, r) ==
    IF r.pc = "idle" \/ r.status \notin PaymentStatus
    THEN [orders |-> ords, stock |-> stk]
    ELSE [orders |-> [ords EXCEPT ![r.order] = PaymentUpdate(@, r.paymentId, r.status)],
          stock |-> RestoreAll(stk, r.todo)]

\* a statement of updatePaymentStatus throws; both callers catch it
UpdatePaymentFail ==
    /\ rec.pc = "run"
    /\ rec.status \in PaymentStatus
    /\ rec' = IdleRec
    /\ UNCHANGED <<accountVars, productSeller, stock, orders, call>>

----------------------------------------------------------------------------
(* Status transitions: OrdersService.updateOrderStatus and                 *)
(* AdminService.updateOrderStatus                                          *)

\* the table with one more edge, out of a terminal status
validTransitionsLoose(status) ==
    CASE status = "PENDING" -> {"CANCELLED"}
      [] status = "PAID" -> {"SHIPPED", "CANCELLED"}
      [] status = "SHIPPED" -> {"DELIVERED"}
      [] status = "DELIVERED" -> {"CANCELLED"}
      [] OTHER -> {}

\* the validTransitions record of updateOrderStatus
validTransitions(status) ==
    CASE status = "PENDING" -> {"CANCELLED"}
      [] status = "PAID" -> {"SHIPPED", "CANCELLED"}
      [] status = "SHIPPED" -> {"DELIVERED"}
      [] OTHER -> {}

Ok(ords) == [ok |-> TRUE, error |-> "none", from |-> "", to |-> "", orders |-> ords]
Failure(e, from, to, ords) == [ok |-> FALSE, error |-> e, from |-> from, to |-> to, orders |-> ords]

\* the transition check of updateOrderStatus: line 224
TransitionAllowed(status, newStatus) == newStatus \in validTransitions(status)

\* OrdersService.updateOrderStatus(orderId, sellerId, newStatus): the outcome and the Order table after it
updateOrderStatus(ords, orderId, sellerId, newStatus) ==
    IF ~(orderId \in 1..Len(ords) /\ ords[orderId].sellerId = sellerId)
    THEN Failure("NotFound", "", "", ords)
    ELSE IF ~TransitionAllowed(ords[orderId].status, newStatus)
    THEN Failure("BadRequest", ords[orderId].status, newStatus, ords)
    ELSE Ok([ords EXCEPT ![orderId].status = newStatus])

\* the callers RolesGuard admits to PATCH orders/:id/status
StatusCallers == Sellers \cup Admins

\* a status transition that gives the stock back when it cancels
SellerUpdateStatusRestocking(orderId, caller, newStatus) ==
    /\ orders' = updateOrderStatus(orders, orderId, caller, newStatus).orders
    /\ stock' = IF orders' # orders /\ newStatus = "CANCELLED"
                THEN RestoreAll(stock, orders[orderId].items) ELSE stock
    /\ UNCHANGED <<accountVars, productSeller, call, rec>>

\* OrdersController.updateStatus: the caller's id is passed as sellerId
SellerUpdateStatus(orderId, caller, newStatus) ==
    /\ orders' = updateOrderStatus(orders, orderId, caller, newStatus).orders
    /\ UNCHANGED <<accountVars, productSeller, stock, call, rec>>

\* AdminService.updateOrderStatus(orderId, status)
adminUpdateOrderStatus(ords, orderId, status) ==
    IF orderId \in 1..Len(ords)
    THEN Ok([ords EXCEPT ![orderId].status = status])
    ELSE Failure("NotFound", "", "", ords)

\* AdminController.updateOrderStatus
AdminUpdateStatus(orderId, status) ==
    /\ orders' = adminUpdateOrderStatus(orders, orderId, status).orders
    /\ UNCHANGED <<accountVars, productSeller, stock, call, rec>>

----------------------------------------------------------------------------
(* The address book: AddressService.create, update and remove. Each awaited *)
(* statement is a step; none of them runs in a transaction.                *)

MaxAddresses == 2       \* rows of the Address table
MaxAddressCalls == 2    \* AddressService requests in flight at once

AddressCalls == 1..MaxAddressCalls

\* data.isDefault of a request: true, false, or not given
DefaultFlags == {"true", "false", "absent"}

IdleAreq == [pc |-> "idle", op |-> "", user |-> "", id |-> 0, isDefault |-> "absent"]

\* address.updateMany({ where: { userId, isDefault: true }, data: { isDefault: false } })
ClearDefaults(addrs, userId) ==
    [i \in 1..Len(addrs) |->
        IF addrs[i].userId = userId /\ addrs[i].isDefault /\ ~addrs[i].deleted
        THEN [addrs[i] EXCEPT !.isDefault = FALSE]
        ELSE addrs[i]]

\* address.create({ data: { ...data, userId } }); isDefault is false when not given
InsertAddress(addrs, userId, flag) ==
    Append(addrs, [userId |-> userId, isDefault |-> (flag = "true"), deleted |-> FALSE])

\* findOne(id, userId) finds the address
AddressFound(addrs, id, userId) ==
    id \in 1..Len(addrs) /\ addrs[id].userId = userId /\ ~addrs[id].deleted

\* the create requests that have not inserted their row yet
PendingInserts == Cardinality({r \in AddressCalls : areq[r].pc = "insert"})

\* AddressService.create: with isDefault the defaults are cleared first and
\* the insert is a second statement; without it the insert is the only one
AddressCreateStart(r, userId, flag) ==
    /\ areq[r].pc = "idle"
    /\ Len(addresses) + PendingInserts < MaxAddresses
    /\ IF flag = "true"
       THEN /\ addresses' = ClearDefaults(addresses, userId)
            /\ areq' = [areq EXCEPT ![r] = [pc |-> "insert", op |-> "create", user |-> userId,
                                            id |-> 0, isDefault |-> flag]]
       ELSE /\ addresses' = InsertAddress(addresses, userId, flag)
            /\ areq' = areq
    /\ UNCHANGED <<orderVars, userStatus, tokens>>

\* the insert of a create that cleared the defaults
AddressInsert(r) ==
    /\ areq[r].pc = "insert"
    /\ addresses' = InsertAddress(addresses, areq[r].user, areq[r].isDefault)
    /\ areq' = [areq EXCEPT ![r] = IdleAreq]
    /\ UNCHANGED <<orderVars, userStatus, tokens>>

\* AddressService.update: findOne, which throws when the address is not the caller's
AddressUpdateStart(r, id, userId, flag) ==
    /\ areq[r].pc = "idle"
    /\ areq' = IF AddressFound(addresses, id, userId)
               THEN [areq EXCEPT ![r] = [pc |-> IF flag = "true" THEN "clear" ELSE "write",
                                         op |-> "update", user |-> userId, id |-> id,
                                         isDefault |-> flag]]
               ELSE areq
    /\ UNCHANGED <<orderVars, addresses, userStatus, tokens>>

\* the updateMany of an update with isDefault
AddressClear(r) ==
    /\ areq[r].pc = "clear"
    /\ addresses' = ClearDefaults(addresses, areq[r].user)
    /\ areq' = [areq EXCEPT ![r].pc = "write"]
    /\ UNCHANGED <<orderVars, userStatus, tokens>>

\* address.update({ where: { id }, data }): it throws when the row is gone
AddressWrite(r) ==
    /\ areq[r].pc = "write"
    /\ addresses' = IF ~addresses[areq[r].id].deleted /\ areq[r].isDefault # "absent"
                    THEN [addresses EXCEPT ![areq[r].id].isDefault = (areq[r].isDefault = "true")]
                    ELSE addresses
    /\ areq' = [areq EXCEPT ![r] = IdleAreq]
    /\ UNCHANGED <<orderVars, userStatus, tokens>>

\* AddressService.remove: findOne
AddressRemoveStart(r, id, userId) ==
    /\ areq[r].pc = "idle"
    /\ areq' = IF AddressFound(addresses, id, userId)
               THEN [areq EXCEPT ![r] = [pc |-> "delete", op |-> "remove", user |-> userId,
                                         id |-> id, isDefault |-> "absent"]]
               ELSE areq
    /\ UNCHANGED <<orderVars, addresses, userStatus, tokens>>

\* address.delete({ where: { id } })
AddressDelete(r) ==
    /\ areq[r].pc = "delete"
    /\ addresses' = [addresses EXCEPT ![areq[r].id].deleted = TRUE]
    /\ areq' = [areq EXCEPT ![r] = IdleAreq]
    /\ UNCHANGED <<orderVars, userStatus, tokens>>

AddressBookNext ==
    \E r \in AddressCalls :
        \/ \E u \in Buyers, flag \in DefaultFlags : AddressCreateStart(r, u, flag)
        \/ AddressInsert(r)
        \/ \E id \in 1..MaxAddresses, u \in Buyers, flag \in DefaultFlags :
              AddressUpdateStart(r, id, u, flag)
        \/ AddressClear(r)
        \/ AddressWrite(r)
        \/ \E id \in 1..MaxAddresses, u \in Buyers : AddressRemoveStart(r, id, u)
        \/ AddressDelete(r)

----------------------------------------------------------------------------

(* Accounts: AuthService.login, JwtAuthGuard.canActivate and               *)
(* AdminService.updateUserStatus                                           *)

UserStatus == {"ACTIVE", "PENDING", "SUSPENDED"}

\* the registered users: register makes a customer ACTIVE and a seller PENDING
AccountIds == Buyers \cup {"s1"} \cup Admins
RegisteredStatus(u) == IF u \in Sellers THEN "PENDING" ELSE "ACTIVE"

\* the payload jwtService.sign puts in a token at login
TokenOf(users, u) == [sub |-> u, status |-> users[u]]
Tokens == [sub : AccountIds, status : UserStatus]

Unauthorized(m) == [ok |-> FALSE, error |-> m, token |-> [sub |-> "", status |-> ""]]

\* AuthService.login; passwordOk: the user exists and bcrypt.compare accepts
login(users, u, passwordOk) ==
    IF ~passwordOk THEN Unauthorized("Invalid credentials")
    ELSE IF users[u] = "SUSPENDED" THEN Unauthorized("Suspended")
    ELSE [ok |-> TRUE, error |-> "none", token |-> TokenOf(users, u)]

\* POST auth/login
Login(u, passwordOk) ==
    /\ tokens' = IF login(userStatus, u, passwordOk).ok
                 THEN tokens \cup {login(userStatus, u, passwordOk).token}
                 ELSE tokens
    /\ UNCHANGED <<orderVars, addresses, areq, userStatus>>

\* a token reaches its expiresIn
TokenExpires(t) ==
    /\ t \in tokens
    /\ tokens' = tokens \ {t}
    /\ UNCHANGED <<orderVars, addresses, areq, userStatus>>

\* JwtAuthGuard.canActivate for a bearer token: jwtService.verify accepts
\* the tokens this service signed that have not expired; signed: those tokens
canActivate(signed, token) == token \in signed

\* AdminService.updateUserStatus(id, status): refused for an admin
updateUserStatus(users, id, status) ==
    IF id \in Admins THEN users ELSE [users EXCEPT ![id] = status]

\* PATCH admin/users/:id/status
AdminUpdateUserStatus(id, status) ==
    /\ userStatus' = updateUserStatus(userStatus, id, status)
    /\ UNCHANGED <<orderVars, addresses, areq, tokens>>

AccountsNext ==
    \/ \E u \in AccountIds, passwordOk \in BOOLEAN : Login(u, passwordOk)
    \/ \E t \in Tokens : TokenExpires(t)
    \/ \E u \in AccountIds, s \in UserStatus : AdminUpdateUserStatus(u, s)

----------------------------------------------------------------------------

(* The system *)

OrderIds == 1..(MaxOrders + 1)

Init ==
    /\ stock = [p \in Products |-> InitStock]
    /\ productSeller = [p \in Products |-> ProductSeller(p)]
    /\ orders = <<>>
    /\ call = [c \in Calls |-> IdleCall]
    /\ rec = IdleRec
    /\ addresses = <<>>
    /\ areq = [r \in AddressCalls |-> IdleAreq]
    /\ userStatus = [u \in AccountIds |-> RegisteredStatus(u)]
    /\ tokens = {}

\* the values worth trying for an input the handler reads only on one path
ReadIf(read, S) == IF read THEN S ELSE {CHOOSE x \in S : TRUE}

Create(slots, limit, types, costs) ==
    \E c \in slots :
        /\ call[c].pc = "idle"
        /\ Len(orders) < limit
        /\ \E items \in Carts :
              /\ Len(orders) + Len(GroupKeys(items, {})) <= limit
              /\ \E u \in Buyers, a \in AddressIds :
                    \E st \in ReadIf(ValidateCreate(u, a, items, stock) = NoError, types),
                       sc \in ReadIf(ValidateCreate(u, a, items, stock) = NoError, costs) :
                        CreateStart(c, u, a, items, st, sc, limit)

Transaction(limit) == \E c \in Calls : TxStep(c) \/ TxCommit(c, limit) \/ TxFail(c)

\* the status strings worth trying: the status is read only from a fetched payment
StatusesIf(read) == IF read THEN GatewayStatuses ELSE {"absent"}

Webhook ==
    /\ rec.pc = "idle"
    /\ \E t \in EventTypes, pid \in 0..MaxOrders, f \in BOOLEAN :
          \E mp \in StatusesIf(t = "payment" /\ pid \in 1..Len(orders) /\ f) :
              WebhookStart(t, pid, f, mp)

Poll ==
    /\ rec.pc = "idle"
    /\ \E o \in OrderIds, u \in Buyers, f \in BOOLEAN :
          \E mp \in StatusesIf(o \in 1..Len(orders) /\ f) :
              PollStart(o, u, f, mp)

UpdatePaymentStatus == RestoreItem \/ UpdateOrderPayment \/ UpdatePaymentFail

SellerTransition ==
    \E o \in OrderIds, s \in StatusCallers, ns \in OrderStatus : SellerUpdateStatus(o, s, ns)

AdminTransition == \E o \in OrderIds, ns \in OrderStatus : AdminUpdateStatus(o, ns)

\* every request of the order lifecycle, interleaved statement by statement
Next ==
    \/ Create(Calls, MaxOrders, {"PLATFORM"}, {0})
    \/ Transaction(MaxOrders)
    \/ Webhook
    \/ Poll
    \/ UpdatePaymentStatus
    \/ SellerTransition
    \/ AdminTransition

Spec == Init /\ [][Next]_vars

\* checkout: concurrent create requests
CheckoutNext == Create(Calls, MaxOrders, {"PLATFORM"}, {0}) \/ Transaction(MaxOrders)

SpecCheckout == Init /\ [][CheckoutNext]_vars

\* the cart of one create request at a time, with every shipping selection
CartNext == Create({1}, MaxOrders, ShippingType, ShippingCosts) \/ Transaction(MaxOrders)

SpecCart == Init /\ [][CartNext]_vars

\* the products whose stock a seller edits through PUT products/:id
EditedProducts == {"pA"}

\* a field the request body does not carry
Absent == "absent"

\* ProductsService.update(id, data): prisma.product.update writes the fields
\* data carries; hasStock: data has a stock field, of value v; owner: the
\* sellerId field of data, or Absent
ProductsUpdate(id, hasStock, v, owner) ==
    /\ stock' = IF hasStock THEN [stock EXCEPT ![id] = v] ELSE stock
    /\ productSeller' = IF owner = Absent THEN productSeller
                        ELSE [productSeller EXCEPT ![id] = owner]
    /\ UNCHANGED <<accountVars, orders, call, rec>>

\* PUT products/:id by a SELLER or an ADMIN; the body is not validated
ProductEdit(owners) ==
    \E id \in EditedProducts, hasStock \in BOOLEAN, owner \in owners :
        \E v \in ReadIf(hasStock, 0..StockCap) :
            ProductsUpdate(id, hasStock, v, owner)

\* PaymentService.createCheckout(userId, { orderId }): it reads the order and
\* its items, and its one write is order.update({ applicationFee }), a column
\* outside the variables
createCheckout(orderId, userId) ==
    /\ orderId \in 1..Len(orders)
    /\ orders[orderId].userId = userId
    /\ orders[orderId].paymentStatus # "APPROVED"
    /\ UNCHANGED vars

Checkout == \E o \in OrderIds, u \in Buyers : createCheckout(o, u)

\* the stock ledger: the life of an order next to the catalogue edits
LedgerNext ==
    \/ Create({1}, LifecycleOrders, {"PLATFORM"}, {0})
    \/ Transaction(LifecycleOrders)
    \/ Checkout
    \/ Webhook
    \/ Poll
    \/ UpdatePaymentStatus
    \/ SellerTransition
    \/ AdminTransition
    \/ ProductEdit({Absent})

SpecLedger == Init /\ [][LedgerNext]_vars

\* the sellerId values tried in the body of a product edit
EditOwners == {Absent, NoSeller} \cup Sellers

\* the catalogue next to the carts: orders are created while products are edited
CatalogueNext ==
    \/ Create({1}, MaxOrders, {"PLATFORM"}, {0})
    \/ Transaction(MaxOrders)
    \/ ProductEdit(EditOwners)

SpecCatalogue == Init /\ [][CatalogueNext]_vars

\* the address book: concurrent AddressService requests
SpecAddressBook == Init /\ [][AddressBookNext]_vars

\* the accounts: logins, suspensions and token expiry
SpecAccounts == Init /\ [][AccountsNext]_vars

\* the life of an order: one create request at a time, then reconciliations
\* and status transitions interleaved
LifecycleNext ==
    \/ Create({1}, LifecycleOrders, ShippingType, ShippingCosts)
    \/ Transaction(LifecycleOrders)
    \/ Webhook
    \/ Poll
    \/ UpdatePaymentStatus
    \/ SellerTransition
    \/ AdminTransition

SpecLifecycle == Init /\ [][LifecycleNext]_vars

----------------------------------------------------------------------------
(* Properties *)

\* what a cart asks of product p
OrderedQuantity(items, p) ==
    SumSeq([i \in 1..Len(items) |-> IF items[i].productId = p THEN items[i].quantity ELSE 0])

\* the sellers (NoSeller for the platform) of the products of a cart
CartSellers(items) == {ProductSeller(items[i].productId) : i \in 1..Len(items)}

\* request c commits its transaction in this step
Commits(c) == call[c].pc = "tx" /\ call'[c].pc = "idle" /\ orders' # orders

\* the orders a step has added to the table
Added == SubSeq(orders', Len(orders) + 1, Len(orders'))

\* C1: every product's stock is >= 0 in every reachable state
StockNeverNegative == \A p \in Products : stock[p] >= 0

\* C2: a create request's transaction is all-or-nothing: each of its steps
\* either leaves the Order table and every stock as the other requests see
\* them untouched (a statement ran inside the transaction, or it failed and
\* rolled back), or it is the commit after the last statement, which adds
\* one order per seller group and takes stock from every product of the cart
CreateIsAllOrNothing ==
    [][\A c \in Calls :
          (call[c].pc = "tx" /\ call'[c] # call[c]) =>
              \/ orders' = orders /\ stock' = stock
              \/ /\ call[c].step = Len(TxOps(call[c].groups, 1))
                 /\ SubSeq(orders', 1, Len(orders)) = orders
                 /\ Len(Added) = Cardinality(CartSellers(call[c].items))
                 /\ \A i \in 1..Len(call[c].items) :
                        stock'[call[c].items[i].productId] < stock[call[c].items[i].productId]
                 /\ \A p \in Products \ {call[c].items[i].productId : i \in 1..Len(call[c].items)} :
                        stock'[p] = stock[p]]_vars

\* C2 witness: a two-group transaction has run both inserts and a decrement
\* and nothing of it shows in the database
TxInFlightInvisible ==
    \E c \in Calls :
        /\ call[c].pc = "tx"
        /\ Len(call[c].groups) = 2
        /\ call[c].step >= 3
        /\ orders = <<>>
        /\ \A p \in Products : stock[p] = InitStock

\* C3: a successful create lowers the stock of every product by the quantity
\* the cart orders of it, and leaves the products outside the cart alone
CreateDecrementsByQuantity ==
    [][\A c \in Calls :
          Commits(c) => \A p \in Products :
                            stock[p] - stock'[p] = OrderedQuantity(call[c].items, p)]_vars

\* C3 witness: an order of two units of a product is in the table and the
\* product's stock is two below the initial stock, another product untouched
CreatedWithStockTaken ==
    \E o \in 1..Len(orders), p \in Products, q \in Products :
        /\ \E i \in 1..Len(orders[o].items) :
               orders[o].items[i].productId = p /\ orders[o].items[i].quantity = 2
        /\ stock[p] = InitStock - 2
        /\ stock[q] = InitStock

\* the value of the cart items of one seller at the catalogue prices
CartValue(items, seller) ==
    SumSeq([i \in 1..Len(items) |->
        IF ProductSeller(items[i].productId) = seller
        THEN ProductPrice(items[i].productId) * items[i].quantity ELSE 0])

\* the cart items of one seller, priced
CartItemsOf(items, seller) ==
    {[productId |-> it.productId, quantity |-> it.quantity, price |-> ProductPrice(it.productId)] :
        it \in {x \in Range(items) : ProductSeller(x.productId) = seller}}

\* C4: a successful create over a cart of K seller groups adds exactly K
\* orders, one per group, each PENDING / PENDING, each holding exactly the
\* cart items of its group, with itemsTotal (the total less the shipping
\* share) equal to the sum of price x quantity over its items
CreateSplitsBySeller ==
    [][\A c \in Calls :
          Commits(c) =>
              /\ SubSeq(orders', 1, Len(orders)) = orders
              /\ Len(Added) = Cardinality(CartSellers(call[c].items))
              /\ {Added[i].sellerId : i \in 1..Len(Added)} = CartSellers(call[c].items)
              /\ \A i \in 1..Len(Added) :
                    /\ Added[i].status = "PENDING"
                    /\ Added[i].paymentStatus = "PENDING"
                    /\ Range(Added[i].items) = CartItemsOf(call[c].items, Added[i].sellerId)
                    /\ Len(Added[i].items) = Cardinality(Range(Added[i].items))
                    /\ Added[i].total.d = Len(Added)
                    /\ Added[i].total.n - call[c].ship
                          = Added[i].total.d * CartValue(call[c].items, Added[i].sellerId)]_vars

\* C4 witness: one cart has produced an order for seller s1 and an order for
\* the platform, the shipping cost split in two
TwoOrdersOfOneCart ==
    /\ Len(orders) = 2
    /\ orders[1].sellerId # orders[2].sellerId
    /\ orders[1].total.d = 2
    /\ orders[2].total.d = 2
    /\ orders[1].total.n > 2 * ItemsTotal(orders[1].items)

\* item i of the cart asks for more than the stock of its product
Short(items, i) ==
    items[i].productId \in Products /\ items[i].quantity > stock[items[i].productId]

\* C5 as stated: whenever an item's quantity exceeds the stock, create fails
\* with the insufficient-stock error
ShortStockIsInsufficientStockError ==
    \A u \in Buyers, a \in AddressIds, items \in Carts :
        (\E i \in 1..Len(items) : Short(items, i)) =>
            ValidateCreate(u, a, items, stock).kind = "InsufficientStock"

\* C5 amended: whenever an item's quantity exceeds the stock, create fails
\* before its transaction, so no order is created and no stock changes; the
\* error is the insufficient-stock error naming the first such product of
\* the cart when the address is the buyer's and every item resolves to a
\* distinct product, and else the error of the earlier failing check
ShortStockIsRejected ==
    \A u \in Buyers, a \in AddressIds, items \in Carts :
        (\E i \in 1..Len(items) : Short(items, i)) =>
            LET e == ValidateCreate(u, a, items, stock)
                resolved == /\ \A i \in 1..Len(items) : items[i].productId \in Products
                            /\ \A i, j \in 1..Len(items) :
                                  i # j => items[i].productId # items[j].productId
            IN  /\ e.kind \in {"AddressNotFound", "ProductsNotFound", "InsufficientStock"}
                /\ \A st \in ShippingType, sc \in ShippingCosts :
                      StartedCall(u, a, items, st, sc, stock) = IdleCall
                /\ e.kind = "AddressNotFound" <=> AddressOwner(a) # u
                /\ e.kind = "ProductsNotFound" <=> (AddressOwner(a) = u /\ ~resolved)
                /\ e.kind = "InsufficientStock" =>
                      \E i \in 1..Len(items) :
                          /\ Short(items, i)
                          /\ \A j \in 1..(i - 1) : ~Short(items, j)
                          /\ e.product = items[i].productId

\* C5 witness: an order has taken stock, and a cart asking for more than is
\* left of that product is refused with the error naming the product
ShortCartRefused ==
    \E p \in Products :
        /\ Len(orders) >= 1
        /\ stock[p] = 1
        /\ ValidateCreate("u1", "a1", <<[productId |-> p, quantity |-> 2]>>, stock)
              = [kind |-> "InsufficientStock", product |-> p]

\* the transition table of the specification
TableEdges ==
    {<<"PENDING", "CANCELLED">>, <<"PAID", "SHIPPED">>, <<"PAID", "CANCELLED">>,
     <<"SHIPPED", "DELIVERED">>}

\* C6: updateOrderStatus by the order's seller succeeds exactly when the
\* requested status is an edge of the table from the current status, and then
\* sets the status; otherwise it fails naming the current and the requested
\* status and the order is unchanged
SellerTransitionFollowsTable ==
    \A o \in 1..Len(orders), ns \in OrderStatus :
        orders[o].sellerId \in Sellers =>
            LET r == updateOrderStatus(orders, o, orders[o].sellerId, ns)
            IN  /\ r.ok <=> <<orders[o].status, ns>> \in TableEdges
                /\ r.ok => r.orders = [orders EXCEPT ![o].status = ns]
                /\ ~r.ok => /\ r.orders = orders
                            /\ r.error = "BadRequest"
                            /\ r.from = orders[o].status
                            /\ r.to = ns

\* C6 witness: a seller's order has been shipped, and the seller's request to
\* take it back to PAID is refused naming SHIPPED and PAID
ShippedToPaidRefused ==
    \E o \in 1..Len(orders) :
        /\ orders[o].sellerId = "s1"
        /\ orders[o].status = "SHIPPED"
        /\ orders[o].paymentStatus = "APPROVED"
        /\ updateOrderStatus(orders, o, "s1", "PAID")
              = Failure("BadRequest", "SHIPPED", "PAID", orders)

\* a step of PATCH orders/:id/status or PATCH admin/orders/:id/status: it
\* writes the Order table and nothing else
TransitionStep == orders' # orders /\ UNCHANGED <<stock, call, rec>>

\* C7: once an order is DELIVERED or CANCELLED, no seller or admin
\* transition changes its status
TerminalStatusStays ==
    [][\A o \in 1..Len(orders) :
          (TransitionStep /\ orders[o].status \in {"DELIVERED", "CANCELLED"}) =>
              orders'[o].status = orders[o].status]_vars

\* the final update of a reconciliation
ReconciliationStep == rec.pc = "run" /\ rec'.pc = "idle" /\ orders' # orders

\* C8, for the status changes a reconciliation makes: each is the entry into
\* PAID from PENDING or an edge of the transition table
ReconciliationFollowsTable ==
    [][\A o \in 1..Len(orders) :
          (ReconciliationStep /\ orders'[o].status # orders[o].status) =>
              <<orders[o].status, orders'[o].status>>
                  \in TableEdges \cup {<<"PENDING", "PAID">>}]_vars

\* C9: through the orders endpoint a seller who does not own the order gets
\* the not-found failure and the order is unchanged, and an admin can make
\* every transition of the table on an order of any seller
AdminTransitionsAnyOrder ==
    \A o \in 1..Len(orders), ns \in OrderStatus :
        /\ \A s \in Sellers \ {orders[o].sellerId} :
              updateOrderStatus(orders, o, s, ns) = Failure("NotFound", "", "", orders)
        /\ \A a \in Admins :
              <<orders[o].status, ns>> \in TableEdges => updateOrderStatus(orders, o, a, ns).ok

\* the table of the specification, PENDING for every string outside it
ClaimedStatus(mp) ==
    CASE mp = "pending" -> "PENDING"
      [] mp = "approved" -> "APPROVED"
      [] mp = "authorized" -> "APPROVED"
      [] mp = "in_process" -> "IN_PROCESS"
      [] mp = "in_mediation" -> "IN_PROCESS"
      [] mp = "rejected" -> "REJECTED"
      [] mp = "cancelled" -> "CANCELLED"
      [] mp = "refunded" -> "CANCELLED"
      [] mp = "charged_back" -> "CANCELLED"
      [] OTHER -> "PENDING"

\* C10: mapPaymentStatus equals the fixed table, with PENDING for every
\* status string outside it and for an absent status: whatever status string
\* the gateway reports for the payment of an order, the webhook enters
\* updatePaymentStatus with the status the table gives for it
MapIsTheFixedTable ==
    \A pid \in 1..Len(orders), mp \in GatewayStatuses :
        /\ mapPaymentStatus(mp) = ClaimedStatus(mp)
        /\ handleWebhook(orders, "payment", pid, TRUE, mp).status = ClaimedStatus(mp)

\* a step of the updatePaymentStatus run in flight
ReconciliationRuns == rec.pc = "run" /\ rec' # rec

\* C11: a reconciliation that applies APPROVED changes no product's stock in
\* any of its steps, and its final update leaves the order with paymentStatus
\* APPROVED, status PAID and the gateway payment id stored (in particular
\* when the order was PENDING / PENDING)
ApprovedMakesPaid ==
    [][(ReconciliationRuns /\ rec.status = "APPROVED") =>
          /\ stock' = stock
          /\ orders' # orders =>
                /\ orders'[rec.order].paymentStatus = "APPROVED"
                /\ orders'[rec.order].status = "PAID"
                /\ orders'[rec.order].paymentId = rec.paymentId
                /\ rec.paymentId # 0
                /\ \A o \in 1..Len(orders) : o # rec.order => orders'[o] = orders[o]]_vars

\* C11 witness: an order is PAID / APPROVED with its payment id stored and
\* the stock of its products is what the creation left
PaidAfterApproval ==
    \E o \in 1..Len(orders) :
        /\ orders[o].status = "PAID"
        /\ orders[o].paymentStatus = "APPROVED"
        /\ orders[o].paymentId = o
        /\ rec.pc = "idle"
        /\ \A p \in Products : stock[p] = InitStock - OrderedQuantity(orders[o].items, p)

\* the mapped statuses that cancel the order
Refused == {"REJECTED", "CANCELLED"}

\* C12: a reconciliation carrying REJECTED or CANCELLED starts with every
\* item of the order to restore; each of its steps then either adds exactly
\* the quantity of the next item to the stock of that item's product and
\* touches nothing else, or, once every item is restored, sets the order to
\* CANCELLED with the mapped paymentStatus and leaves the stock alone, or
\* fails and changes nothing more
RefusedRestoresStock ==
    [][/\ (rec.pc = "idle" /\ rec'.pc = "run" /\ rec'.status \in Refused) =>
              /\ rec'.todo = orders[rec'.order].items
              /\ stock' = stock
              /\ orders' = orders
       /\ (ReconciliationRuns /\ rec.status \in Refused) =>
              \/ /\ rec.todo # <<>>
                 /\ rec' = [rec EXCEPT !.todo = Tail(rec.todo)]
                 /\ orders' = orders
                 /\ \A p \in Products :
                       stock'[p] = stock[p] + (IF p = Head(rec.todo).productId
                                               THEN Head(rec.todo).quantity ELSE 0)
              \/ /\ rec.todo = <<>>
                 /\ rec' = IdleRec
                 /\ stock' = stock
                 /\ orders'[rec.order].status = "CANCELLED"
                 /\ orders'[rec.order].paymentStatus = rec.status
              \/ /\ rec' = IdleRec
                 /\ stock' = stock
                 /\ orders' = orders]_vars

\* C12 witness: an order of two units is CANCELLED / REJECTED after its
\* reconciliation, and every product is back at the stock it had before the
\* order was created
RefusedOrderRestored ==
    \E o \in 1..Len(orders) :
        /\ orders[o].status = "CANCELLED"
        /\ orders[o].paymentStatus = "REJECTED"
        /\ \E i \in 1..Len(orders[o].items) : orders[o].items[i].quantity = 2
        /\ rec.pc = "idle"
        /\ \A p \in Products : stock[p] = InitStock

\* C13: for every stored order with its payment on file and every status
\* the gateway returns for that payment, the webhook for the payment and the
\* owner's poll of the order leave the orders and the stocks in the same state
PushAndPollAgree ==
    \A o \in 1..Len(orders), mp \in GatewayStatuses :
        orders[o].paymentId # 0 =>
            Completed(orders, stock, handleWebhook(orders, "payment", orders[o].paymentId, TRUE, mp))
              = Completed(orders, stock, getPaymentStatus(orders, o, orders[o].userId, TRUE, mp))

\* C14: handleWebhook acknowledges every event with received = true, whether
\* or not a statement of it threw; an event that is not a payment or carries
\* no payment id starts no update and reports no error; a payment that
\* cannot be fetched, or whose order is unknown, changes no order and no
\* stock, and the failure is acknowledged
WebhookAlwaysAcknowledged ==
    \A t \in EventTypes, pid \in 0..MaxOrders, f \in BOOLEAN, mp \in GatewayStatuses :
        LET r == handleWebhook(orders, t, pid, f, mp)
            same == [orders |-> orders, stock |-> stock]
        IN  /\ \A thrown \in BOOLEAN : handleWebhookReturn(t, pid, thrown).received
            /\ (t # "payment" \/ pid = 0) =>
                  /\ r = IdleRec
                  /\ \A thrown \in BOOLEAN : ~handleWebhookReturn(t, pid, thrown).error
            /\ (~f \/ UnknownOrder(orders, pid)) =>
                  /\ Completed(orders, stock, r) = same
                  /\ handleWebhookReturn(t, pid, TRUE).received

\* C14 witness: with an order in the table, a payment event for a payment of
\* no order starts no update and is acknowledged with the error noted
UnknownOrderAcknowledged ==
    /\ Len(orders) >= 1
    /\ UnknownOrder(orders, Len(orders) + 1)
    /\ handleWebhook(orders, "payment", Len(orders) + 1, TRUE, "rejected") = IdleRec
    /\ handleWebhookReturn("payment", Len(orders) + 1, TRUE)
          = [received |-> TRUE, processed |-> FALSE, error |-> TRUE]

\* C15: when the gateway call of a poll fails for an order with a payment id
\* on file, the poll raises no error, answers the stored paymentStatus and
\* order status, and starts no update: orders and stocks stay as they are
PollSwallowsGatewayFailure ==
    \A o \in 1..Len(orders), mp \in GatewayStatuses :
        orders[o].paymentId # 0 =>
            /\ getPaymentStatusReturn(orders, o, orders[o].userId, FALSE, mp, FALSE)
                  = [error |-> "none", paymentStatus |-> orders[o].paymentStatus,
                     orderStatus |-> orders[o].status]
            /\ getPaymentStatus(orders, o, orders[o].userId, FALSE, mp) = IdleRec
            /\ Completed(orders, stock, getPaymentStatus(orders, o, orders[o].userId, FALSE, mp))
                  = [orders |-> orders, stock |-> stock]

\* C15 witness: a shipped, approved order has its payment id on file, and a
\* poll of it whose gateway call fails answers APPROVED and SHIPPED
FailedPollAnswersStored ==
    \E o \in 1..Len(orders) :
        /\ orders[o].paymentId # 0
        /\ orders[o].paymentStatus = "APPROVED"
        /\ orders[o].status = "SHIPPED"
        /\ getPaymentStatusReturn(orders, o, orders[o].userId, FALSE, "rejected", FALSE)
              = [error |-> "none", paymentStatus |-> "APPROVED", orderStatus |-> "SHIPPED"]

\* the commit of a create: stock goes down only
CommitStep == (\E c \in Calls : Commits(c)) /\ \A p \in Products : stock'[p] <= stock[p]

\* a turn of the restore loop of a REJECTED / CANCELLED reconciliation
RestoreStep ==
    /\ ReconciliationRuns
    /\ rec.status \in Refused
    /\ rec.todo # <<>>
    /\ orders' = orders
    /\ \A p \in Products : stock'[p] >= stock[p]

\* a product edit: one product's stock is set and no order is touched
EditStep ==
    /\ UNCHANGED <<orders, call, rec>>
    /\ Cardinality({p \in Products : stock'[p] # stock[p]}) = 1

AtMostOneDefault ==
    \A u \in Buyers :
        Cardinality({i \in 1..Len(addresses) :
            addresses[i].userId = u /\ addresses[i].isDefault /\ ~addresses[i].deleted}) <= 1

\* C18: a suspended user cannot authenticate: the login of a SUSPENDED user
\* fails even with the right password, and the guard accepts no token that
\* carries the user's id
SuspendedCannotAuthenticate ==
    \A u \in AccountIds :
        userStatus[u] = "SUSPENDED" =>
            /\ ~login(userStatus, u, TRUE).ok
            /\ \A t \in Tokens : t.sub = u => ~canActivate(tokens, t)

\* the sum of a sequence of fractions n / d, as a fraction
RECURSIVE SumFractions(_)
SumFractions(fs) ==
    IF fs = <<>> THEN [n |-> 0, d |-> 1]
    ELSE LET rest == SumFractions(Tail(fs))
         IN  [n |-> Head(fs).n * rest.d + rest.n * Head(fs).d, d |-> Head(fs).d * rest.d]

\* the fraction f is the integer num over the integer den
IsQuotient(f, num, den) == f.n * den = num * f.d

OrderWithinOneSellerGroup ==
    \A o \in 1..Len(orders) :
        \A i \in 1..Len(orders[o].items) :
            productSeller[orders[o].items[i].productId] = orders[o].sellerId

\* the id after the last row of the Order table: no order has it
MissingOrder == Len(orders) + 1

\* the buyers and the sellers that do not own order o
ForeignBuyers(o) == Buyers \ {orders[o].userId}
ForeignSellers(o) == StatusCallers \ {orders[o].sellerId}

\* C21 as stated: for each lookup the outcome for an id that does not exist
\* differs from the outcome for an existing id owned by another user
NotFoundTellsMissingFromForeign ==
    /\ \A u \in Buyers \ {AddressOwner("a1")}, items \in Carts \ {<<>>} :
          ValidateCreate(u, "a1", items, stock) # ValidateCreate(u, NoAddress, items, stock)
    /\ \A o \in 1..Len(orders) :
          /\ \A u \in ForeignBuyers(o) :
                /\ findOne(orders, o, u) # findOne(orders, MissingOrder, u)
                /\ createCheckoutReturn(orders, o, u)
                      # createCheckoutReturn(orders, MissingOrder, u)
                /\ \A f \in BOOLEAN, mp \in GatewayStatuses :
                      getPaymentStatusReturn(orders, o, u, f, mp, FALSE)
                          # getPaymentStatusReturn(orders, MissingOrder, u, f, mp, FALSE)
          /\ \A s \in ForeignSellers(o), ns \in OrderStatus :
                updateOrderStatus(orders, o, s, ns) # updateOrderStatus(orders, MissingOrder, s, ns)

\* C21 amended: for each lookup the outcome for an existing id owned by
\* another user is the error given for an id that does not exist, and in
\* both cases nothing is persisted: no create enters its transaction, no
\* reconciliation starts and the Order table stays as it is
NotFoundHidesOwnership ==
    /\ \A u \in Buyers \ {AddressOwner("a1")}, items \in Carts \ {<<>>} :
          /\ ValidateCreate(u, "a1", items, stock) = Err("AddressNotFound")
          /\ ValidateCreate(u, NoAddress, items, stock) = Err("AddressNotFound")
          /\ \A a \in AddressIds, st \in ShippingType, sc \in ShippingCosts :
                StartedCall(u, a, items, st, sc, stock) = IdleCall
    /\ \A o \in 1..Len(orders) :
          /\ \A u \in ForeignBuyers(o) :
                /\ findOne(orders, o, u) = findOne(orders, MissingOrder, u)
                /\ findOne(orders, o, u).error = "NotFound"
                /\ createCheckoutReturn(orders, o, u)
                      = createCheckoutReturn(orders, MissingOrder, u)
                /\ createCheckoutReturn(orders, o, u).message = "Order not found"
                /\ \A f \in BOOLEAN, mp \in GatewayStatuses :
                      /\ getPaymentStatusReturn(orders, o, u, f, mp, FALSE)
                            = getPaymentStatusReturn(orders, MissingOrder, u, f, mp, FALSE)
                      /\ getPaymentStatusReturn(orders, o, u, f, mp, FALSE).error = "BadRequest"
                      /\ getPaymentStatus(orders, o, u, f, mp) = IdleRec
                      /\ getPaymentStatus(orders, MissingOrder, u, f, mp) = IdleRec
          /\ \A s \in ForeignSellers(o), ns \in OrderStatus :
                /\ updateOrderStatus(orders, o, s, ns) = updateOrderStatus(orders, MissingOrder, s, ns)
                /\ updateOrderStatus(orders, o, s, ns) = Failure("NotFound", "", "", orders)

\* C21 witness: an order of buyer u1 and seller s1 is on file, and buyer u2
\* and seller s2 look it up
ForeignOrderLookedUp ==
    \E o \in 1..Len(orders) :
        /\ orders[o].userId = "u1"
        /\ orders[o].sellerId = "s1"
        /\ findOne(orders, o, "u2").error = "NotFound"
        /\ updateOrderStatus(orders, o, "s2", "CANCELLED").error = "NotFound"

\* the mapped statuses that leave the order's status alone
Unsettled == {"PENDING", "IN_PROCESS"}

\* C22: a reconciliation that applies PENDING or IN_PROCESS changes no
\* product's stock in any of its steps, and its update changes nothing of the
\* order but paymentStatus and paymentId: status, items and every other
\* field, and every other order, stay as they are
UnsettledTouchesPaymentOnly ==
    [][(ReconciliationRuns /\ rec.status \in Unsettled) =>
          /\ stock' = stock
          /\ rec.todo = <<>>
          /\ orders' # orders =>
                orders' = [orders EXCEPT ![rec.order].paymentStatus = rec.status,
                                         ![rec.order].paymentId = rec.paymentId]]_vars

\* C22 witness: a PAID order whose payment has afterwards been reported
\* in_process: the paymentStatus is IN_PROCESS and the status is still PAID
InProcessKeepsStatus ==
    \E o \in 1..Len(orders) :
        /\ orders[o].paymentStatus = "IN_PROCESS"
        /\ orders[o].paymentId # 0
        /\ orders[o].status = "PAID"
        /\ rec.pc = "idle"

\* C23: the owner's poll of an order starts an update only when the order
\* has a payment id on file and the fetched status maps to a status other
\* than the stored paymentStatus; with no payment id on file, or with a
\* mapped status equal to the stored one, it starts none, so that orders and
\* stocks stay as they are, and it answers the stored paymentStatus and status
PollWritesOnlyOnChange ==
    \A o \in 1..Len(orders), f \in BOOLEAN, mp \in GatewayStatuses :
        LET u == orders[o].userId
            r == getPaymentStatus(orders, o, u, f, mp)
            stored == [error |-> "none", paymentStatus |-> orders[o].paymentStatus,
                       orderStatus |-> orders[o].status]
        IN  /\ Completed(orders, stock, r) # [orders |-> orders, stock |-> stock] =>
                  /\ orders[o].paymentId # 0
                  /\ f
                  /\ mapPaymentStatus(mp) # orders[o].paymentStatus
            /\ (orders[o].paymentId = 0 \/ (f /\ mapPaymentStatus(mp) = orders[o].paymentStatus)) =>
                  /\ r = IdleRec
                  /\ Completed(orders, stock, r) = [orders |-> orders, stock |-> stock]
                  /\ \A thrown \in BOOLEAN :
                        getPaymentStatusReturn(orders, o, u, f, mp, thrown) = stored

\* C23 witness: a cancelled order with a rejected payment on file is polled
\* and the gateway still says rejected: no update starts, although applying
\* REJECTED once more would add the items to the stock again
UnchangedStatusPolled ==
    \E o \in 1..Len(orders) :
        /\ orders[o].paymentId # 0
        /\ orders[o].paymentStatus = "REJECTED"
        /\ rec.pc = "idle"
        /\ getPaymentStatus(orders, o, orders[o].userId, TRUE, "rejected") = IdleRec
        /\ handleWebhook(orders, "payment", orders[o].paymentId, TRUE, "rejected") # IdleRec

\* C24: no state is reachable in which a REJECTED / CANCELLED reconciliation
\* has added some or all of the order's item quantities back to stock while
\* the order's status is not CANCELLED
RestoreIsAtomicWithCancel ==
    (rec.pc = "run" /\ rec.status \in Refused /\ rec.todo # orders[rec.order].items) =>
        orders[rec.order].status = "CANCELLED"

\* the quantity of product p in the orders on file
SoldQuantity(p) ==
    SumSeq([o \in 1..Len(orders) |-> OrderedQuantity(orders[o].items, p)])

\* request c has run every statement of its transaction and the Order table
\* has room for its orders
ReadyToCommit(c) ==
    /\ call[c].pc = "tx"
    /\ call[c].step = Len(TxOps(call[c].groups, 1))
    /\ Len(orders) + Len(call[c].groups) <= MaxOrders

\* C25: a create request that has passed the availability check holds
\* nothing of the stock it read: the stock the other requests read counts
\* committed orders only, so two requests can pass the check on the same
\* value, and the commit of a request that has passed is never held back by
\* the stock, whatever the other request has committed in between
ConcurrentCreatesBothCommit ==
    /\ \A p \in Products : stock[p] = InitStock - SoldQuantity(p)
    /\ \A c \in Calls : ReadyToCommit(c) => ENABLED TxCommit(c, MaxOrders)

\* C25 witness: two orders for the same product are on file, each within
\* the stock its request read, and together they exceed the stock there was
BothOrdersOversell ==
    \E p \in Products :
        /\ Len(orders) = 2
        /\ \A o \in 1..2 : OrderedQuantity(orders[o].items, p) \in 1..InitStock
        /\ SoldQuantity(p) > InitStock
        /\ stock[p] < 0

\* the gateway statuses that map to REJECTED or CANCELLED
RefusedByGateway == {mp \in DOMAIN statusMap : statusMap[mp] \in Refused}

\* C26: a webhook that carries a REJECTED or CANCELLED outcome for an order
\* starts a run that restores every item of the order whatever the order's
\* status is, CANCELLED included; the run adds each item's quantity to its
\* product's stock, and the same webhook delivered again adds it once more,
\* so that two deliveries raise the stock by twice the ordered quantity
RestorationIsNotIdempotent ==
    \A o \in 1..Len(orders), mp \in RefusedByGateway :
        LET first == handleWebhook(orders, "payment", o, TRUE, mp)
            once == Completed(orders, stock, first)
            second == handleWebhook(once.orders, "payment", o, TRUE, mp)
            twice == Completed(once.orders, once.stock, second)
        IN  /\ first.pc = "run"
            /\ first.todo = orders[o].items
            /\ second.todo = orders[o].items
            /\ once.orders[o].status = "CANCELLED"
            /\ \A p \in Products :
                  /\ once.stock[p] = stock[p] + OrderedQuantity(orders[o].items, p)
                  /\ twice.stock[p] = stock[p] + 2 * OrderedQuantity(orders[o].items, p)

\* C26 witness: the rejected payment of an order has been delivered twice:
\* the order is CANCELLED and the stock of its product stands above the
\* initial stock by the ordered quantity
RestoredTwice ==
    \E o \in 1..Len(orders), p \in Products :
        /\ orders[o].status = "CANCELLED"
        /\ orders[o].paymentStatus = "REJECTED"
        /\ OrderedQuantity(orders[o].items, p) > 0
        /\ stock[p] = InitStock + OrderedQuantity(orders[o].items, p)
        /\ rec.pc = "idle"

\* the failing conditions of a create request, each taken on its own
AddressFails(u, a) == AddressOwner(a) # u
ProductCountFails(items) == Cardinality(FindProducts(items)) # Len(items)
StockFails(items) == \E i \in 1..Len(items) : Short(items, i)

\* no product id occurs twice in the cart
NoRepeatedProduct(items) ==
    \A i, j \in 1..Len(items) : i # j => items[i].productId # items[j].productId

\* C27: create checks, in this order, the empty cart, the address, the
\* resolved-product count (which, for a cart without repeated ids, fails
\* exactly when some id does not resolve) and the stock; the error is that
\* of the first check that fails whatever the later checks would say, the
\* four errors are distinct, and a failed check leaves the request out of
\* its transaction, so that no order is created and no stock changes
ValidationFailsFast ==
    \A u \in Buyers, a \in AddressIds, items \in Carts :
        LET e == ValidateCreate(u, a, items, stock).kind
        IN  /\ items = <<>> => e = "CartEmpty"
            /\ (items # <<>> /\ AddressFails(u, a)) => e = "AddressNotFound"
            /\ (items # <<>> /\ ~AddressFails(u, a) /\ ProductCountFails(items)) =>
                  e = "ProductsNotFound"
            /\ (items # <<>> /\ ~AddressFails(u, a) /\ ~ProductCountFails(items)
                    /\ StockFails(items)) => e = "InsufficientStock"
            /\ (items # <<>> /\ ~AddressFails(u, a) /\ ~ProductCountFails(items)
                    /\ ~StockFails(items)) => e = "none"
            /\ NoRepeatedProduct(items) =>
                  (ProductCountFails(items) <=>
                      \E i \in 1..Len(items) : items[i].productId \notin Products)
            /\ \A st \in ShippingType, sc \in ShippingCosts :
                  IF e = "none"
                  THEN StartedCall(u, a, items, st, sc, stock).pc = "tx"
                  ELSE StartedCall(u, a, items, st, sc, stock) = IdleCall

\* C27 witness: with the stock of a product used up, a cart that holds an
\* unknown product and that product is refused for the address when the
\* buyer does not own it, for the products when the buyer does, and the
\* cart of that product alone is refused for the stock
SeveralChecksFailAtOnce ==
    \E p \in Products :
        LET both == <<[productId |-> NoProduct, quantity |-> 1], [productId |-> p, quantity |-> 1]>>
        IN  /\ stock[p] = 0
            /\ Len(orders) >= 1
            /\ ValidateCreate("u2", "a1", both, stock).kind = "AddressNotFound"
            /\ ValidateCreate("u1", "a1", both, stock).kind = "ProductsNotFound"
            /\ ValidateCreate("u1", "a1", <<[productId |-> p, quantity |-> 1]>>, stock).kind
                  = "InsufficientStock"

\* the quantity of product p held by the orders that are not CANCELLED
LiveQuantity(p) ==
    SumSeq([o \in 1..Len(orders) |->
               IF orders[o].status = "CANCELLED" THEN 0
               ELSE OrderedQuantity(orders[o].items, p)])

\* C28: with no product edits, in every reachable state the stock of every
\* product plus the quantity of it held by the orders that are not CANCELLED
\* is the product's initial stock
StockLedgerConserved == \A p \in Products : stock[p] + LiveQuantity(p) = InitStock

\* C29: the paymentStatus and the orderStatus a poll answers are the order's
\* persisted paymentStatus and status once the poll has run, also when the
\* poll has just applied a changed gateway status
PollAnswersPersistedStatus ==
    \A o \in 1..Len(orders), f \in BOOLEAN, mp \in GatewayStatuses :
        LET u == orders[o].userId
            r == getPaymentStatus(orders, o, u, f, mp)
            thrown == r.pc = "run" /\ r.status \notin PaymentStatus
            after == Completed(orders, stock, r).orders[o]
            answer == getPaymentStatusReturn(orders, o, u, f, mp, thrown)
        IN  /\ answer.paymentStatus = after.paymentStatus
            /\ answer.orderStatus = after.status

\* C30: a cart that lists a product id in more than one item fails the
\* product count and is refused by create before the transaction, whatever
\* the stock: no order is created and no stock changes; so every request in
\* its transaction and every order on file holds each product in at most
\* one item, and for a cart that reaches the stock loop the per-item check
\* fails exactly when some product is asked for beyond its stock
RepeatedProductIsRefused ==
    /\ \A u \in Buyers, a \in AddressIds, items \in Carts :
          /\ ~NoRepeatedProduct(items) =>
                /\ ProductCountFails(items)
                /\ ValidateCreate(u, a, items, stock).kind \in {"AddressNotFound", "ProductsNotFound"}
                /\ \A st \in ShippingType, sc \in ShippingCosts :
                      StartedCall(u, a, items, st, sc, stock) = IdleCall
          /\ (items # <<>> /\ ~AddressFails(u, a) /\ ~ProductCountFails(items)) =>
                (StockFails(items) <=>
                    \E p \in Products : OrderedQuantity(items, p) > stock[p])
    /\ \A c \in Calls : NoRepeatedProduct(call[c].items)
    /\ \A o \in 1..Len(orders) : NoRepeatedProduct(orders[o].items)

\* C30 witness: an order of two different products is on file, and a cart
\* that lists pC twice, one unit each, is refused for the product count
\* although the stock of pC would cover both items
RepeatedCartRefused ==
    /\ \E o \in 1..Len(orders) : Len(orders[o].items) = 2
    /\ stock["pC"] = 2
    /\ ValidateCreate("u1", "a1", <<[productId |-> "pC", quantity |-> 1],
                                    [productId |-> "pC", quantity |-> 1]>>, stock).kind
          = "ProductsNotFound"

====
